---- MODULE Spec2Model ----
(***************************************************************************)
(* Model of the generation / validation / persistence pipeline of          *)
(* char-descriptor-lab: TextValidator.validate (validator.py) and          *)
(* DatasetGenerator.generate_level / generate_all / _generate_one /        *)
(* _save_batch (generator.py), with the defaults of Config (config.py).    *)
(*                                                                         *)
(* A text is a sequence of characters.  A character is a one-token string: *)
(* a lower-case Cyrillic letter is written by its transliteration ("ya"    *)
(* for U+044F, "s" for U+0441, ...), its upper-case form by the same       *)
(* token in capitals, and the other classes of characters the regular      *)
(* expressions of validator.py tell apart are "x"/"X" (a Latin letter),    *)
(* "1" (a digit), "_" , " " and "NL" (white space, "NL" a line break),     *)
(* "." "!" "?" (sentence terminators) and "," (other punctuation).         *)
(***************************************************************************)
EXTENDS Integers, Sequences, FiniteSets, TLC

\* ------------------------------------------------------------------------
\* Characters
\* ------------------------------------------------------------------------

CyrLower ==
    {"a", "v", "d", "e", "zh", "z", "i", "k", "l", "m", "n", "o", "p", "r",
     "s", "t", "u", "sh", "yu", "ya", "yo"}

CyrUpper ==
    {"A", "V", "D", "E", "ZH", "Z", "I", "K", "L", "M", "N", "O", "P", "R",
     "S", "T", "U", "SH", "YU", "YA", "YO"}

UpperOf ==
    [c \in CyrLower |->
        CASE c = "a" -> "A" [] c = "v" -> "V" [] c = "d" -> "D"
          [] c = "e" -> "E" [] c = "zh" -> "ZH" [] c = "z" -> "Z"
          [] c = "i" -> "I" [] c = "k" -> "K" [] c = "l" -> "L"
          [] c = "m" -> "M" [] c = "n" -> "N" [] c = "o" -> "O"
          [] c = "p" -> "P" [] c = "r" -> "R" [] c = "s" -> "S"
          [] c = "t" -> "T" [] c = "u" -> "U" [] c = "sh" -> "SH"
          [] c = "yu" -> "YU" [] c = "ya" -> "YA" [] c = "yo" -> "YO"]

\* str.lower() on one character
Lower(c) ==
    IF c \in CyrUpper THEN CHOOSE l \in CyrLower : UpperOf[l] = c
    ELSE IF c = "X" THEN "x"
    ELSE c

\* \s of the re module, and what str.strip() removes
IsSpace(c) == c \in {" ", "NL"}

\* a line break, as the text-mode iteration over the csv file sees it
IsLineBreak(c) == c = "NL"

\* \w of the re module on str patterns: letters, digits and the underscore
IsWordChar(c) == c \in CyrLower \cup CyrUpper \cup {"x", "X", "1", "_"}

\* the character class [.!?]
IsSentenceEnd(c) == c \in {".", "!", "?"}

\* the character class [a-ya yo] of the word pattern (applied to lowered text)
IsRussianLower(c) == c \in CyrLower

\* ------------------------------------------------------------------------
\* String helpers
\* ------------------------------------------------------------------------

\* str.strip(): the text without its leading and trailing white space
Strip(t) ==
    LET keep == {i \in 1..Len(t) : ~IsSpace(t[i])}
    IN  IF keep = {} THEN <<>>
        ELSE LET lo == CHOOSE i \in keep : \A j \in keep : i <= j
                 hi == CHOOSE i \in keep : \A j \in keep : i >= j
             IN  SubSeq(t, lo, hi)

\* str.lower()
LowerText(t) == [i \in 1..Len(t) |-> Lower(t[i])]

\* \b at the gap before position i (1 .. Len(t)+1)
Boundary(t, i) ==
    LET before == i > 1 /\ IsWordChar(t[i - 1])
        after == i <= Len(t) /\ IsWordChar(t[i])
    IN  before # after

\* the literal lit (lower case) matches t at position i under re.I
MatchLit(t, i, lit) ==
    /\ i + Len(lit) - 1 <= Len(t)
    /\ \A k \in 1..Len(lit) : Lower(t[i + k - 1]) = lit[k]

\* lit1 \s+ lit2 matches t at position i; the set of the positions after the match
MatchSpaced(t, i, lit1, lit2) ==
    IF ~MatchLit(t, i, lit1) THEN {}
    ELSE LET s == i + Len(lit1)
         IN  {j + Len(lit2) : j \in {j \in (s + 1)..Len(t) :
                  /\ \A k \in s..(j - 1) : IsSpace(t[k])
                  /\ MatchLit(t, j, lit2)}}

\* ------------------------------------------------------------------------
\* TextValidator (validator.py)
\* ------------------------------------------------------------------------

Levels == {1, 2, 3}

\* Config.min_words / Config.max_words: the defaults of __post_init__
MinWords == [l \in Levels |-> CASE l = 1 -> 50 [] l = 2 -> 120 [] l = 3 -> 180]

MaxWords == [l \in Levels |-> CASE l = 1 -> 120 [] l = 2 -> 250 [] l = 3 -> 350]

\* the least length of a stripped text
MinTextLen == 10

\* the least number of Russian words
MinRussianWords == 8

LitYa == <<"ya">>

LitVerbs ==
    { <<"s", "o", "z", "d", "a", "m">>,
      <<"o", "p", "i", "sh", "u">>,
      <<"n", "a", "p", "i", "sh", "u">> }

LitStruktura == <<"s", "t", "r", "u", "k", "t", "u", "r", "a">>

LitOpisaniya == <<"o", "p", "i", "s", "a", "n", "i", "ya">>

LitIzvinite == <<"i", "z", "v", "i", "n", "i", "t", "e">>

LitK == <<"k">>

LitSozhaleniyu == <<"s", "o", "zh", "a", "l", "e", "n", "i", "yu">>

\* GarbageMeta with the leading pronoun required:  \bya\s+(?:sozdam|...)\b
GarbageMetaPronounRequired(t) ==
    \E i \in 1..Len(t) :
        /\ Boundary(t, i)
        /\ \E verb \in LitVerbs :
              \E e \in MatchSpaced(t, i, LitYa, verb) : Boundary(t, e)

\* _GARBAGE_RE[0]:  \b(?:ya\s+)?(?:sozdam|opishu|napishu)\b   with re.I
GarbageMeta(t) ==
    \E i \in 1..Len(t) :
        /\ Boundary(t, i)
        /\ \E verb \in LitVerbs :
              \/ MatchLit(t, i, verb) /\ Boundary(t, i + Len(verb))
              \/ \E e \in MatchSpaced(t, i, LitYa, verb) : Boundary(t, e)

\* _GARBAGE_RE[1]:  \bstruktura\s+opisaniya\b   with re.I
GarbageStructure(t) ==
    \E i \in 1..Len(t) :
        /\ Boundary(t, i)
        /\ \E e \in MatchSpaced(t, i, LitStruktura, LitOpisaniya) : Boundary(t, e)

\* _GARBAGE_RE[2]:  \bizvinite|k\s+sozhaleniyu\b   with re.I
\* (the alternation binds weaker than \b: the first branch has only the leading
\* boundary, the second only the trailing one)
GarbageApology(t) ==
    \E i \in 1..Len(t) :
        \/ Boundary(t, i) /\ MatchLit(t, i, LitIzvinite)
        \/ \E e \in MatchSpaced(t, i, LitK, LitSozhaleniyu) : Boundary(t, e)

\* any(p.search(txt) for p in self._GARBAGE)
IsGarbage(t) == GarbageMeta(t) \/ GarbageStructure(t) \/ GarbageApology(t)

\* the end of the run of word characters that starts at i
WordRunEnd(t, i) ==
    CHOOSE j \in i..Len(t) :
        /\ j = Len(t) \/ ~IsWordChar(t[j + 1])
        /\ \A k \in i..j : IsWordChar(t[k])

\* re.findall(r"\b[a-ya yo]+\b", t): the start positions of the matches.  \b holds
\* only at the ends of a run of word characters, so a match is a whole run made
\* of lower-case Russian letters only.
FindWords(t) ==
    {i \in 1..Len(t) :
        /\ IsWordChar(t[i])
        /\ Boundary(t, i)
        /\ \A k \in i..WordRunEnd(t, i) : IsRussianLower(t[k])}

\* the last position <= i that holds no white space, 0 if there is none
PrevNonSpace(t, i) ==
    IF \A k \in 1..i : IsSpace(t[k]) THEN 0
    ELSE LET d == CHOOSE d \in 0..(i - 1) :
                      /\ ~IsSpace(t[i - d])
                      /\ \A m \in 0..(d - 1) : IsSpace(t[i - m])
         IN  i - d

\* [s for s in re.split(r"[.!?]+", t) if s.strip()]: the position of the first
\* character that is not white space of each segment that has one
Sentences(t) ==
    {i \in 1..Len(t) :
        /\ ~IsSpace(t[i]) /\ ~IsSentenceEnd(t[i])
        /\ LET p == PrevNonSpace(t, i - 1)
           IN  p = 0 \/ IsSentenceEnd(t[p])}

\* the empty dict {} the critical rejections return
EmptyStats == [k \in {} |-> 0]

\* the dict of the basic metrics; avg_sent_len is the quotient num / den
QuickStats(nwords, nsents) ==
    [word_count |-> nwords,
     sentence_count |-> nsents,
     avg_sent_len |-> [num |-> nwords, den |-> IF nsents > 1 THEN nsents ELSE 1]]

\* len(txt) < 10
TooShort(txt) == Len(txt) < MinTextLen

\* NotEnoughWords with the threshold one too low
NotEnoughWordsOneLess(nwords) == nwords < MinRussianWords - 1

\* len(words) < 8
NotEnoughWords(nwords) == nwords < MinRussianWords

\* InBand without the upper limit
InBandNoUpper(nwords, level) == MinWords[level] <= nwords

\* cfg.min_words[level] <= word_count <= cfg.max_words[level]
InBand(nwords, level) == MinWords[level] <= nwords /\ nwords <= MaxWords[level]

\* validate with the garbage patterns tried before the length
ValidateGarbageFirst(text, level) ==
    LET txt == Strip(text)
    IN  IF IsGarbage(txt)
        THEN [ok |-> FALSE, msg |-> "meta_garbage", stats |-> EmptyStats]
        ELSE IF TooShort(txt)
        THEN [ok |-> FALSE, msg |-> "too_short", stats |-> EmptyStats]
        ELSE LET nwords == Cardinality(FindWords(LowerText(txt)))
             IN  IF NotEnoughWords(nwords)
                 THEN [ok |-> FALSE, msg |-> "not_enough_russian_words",
                       stats |-> EmptyStats]
                 ELSE LET stats == QuickStats(nwords, Cardinality(Sentences(txt)))
                      IN  IF ~InBand(stats.word_count, level)
                          THEN [ok |-> FALSE, msg |-> "len_out_of_bounds",
                                stats |-> stats]
                          ELSE [ok |-> TRUE, msg |-> "ok", stats |-> stats]

\* validate that returns {} with every rejection
ValidateBandNoStats(text, level) ==
    LET txt == Strip(text)
    IN  IF TooShort(txt)
        THEN [ok |-> FALSE, msg |-> "too_short", stats |-> EmptyStats]
        ELSE IF IsGarbage(txt)
        THEN [ok |-> FALSE, msg |-> "meta_garbage", stats |-> EmptyStats]
        ELSE LET nwords == Cardinality(FindWords(LowerText(txt)))
             IN  IF NotEnoughWords(nwords)
                 THEN [ok |-> FALSE, msg |-> "not_enough_russian_words",
                       stats |-> EmptyStats]
                 ELSE LET stats == QuickStats(nwords, Cardinality(Sentences(txt)))
                      IN  IF ~InBand(stats.word_count, level)
                          THEN [ok |-> FALSE, msg |-> "len_out_of_bounds",
                                stats |-> EmptyStats]
                          ELSE [ok |-> TRUE, msg |-> "ok", stats |-> stats]

\* TextValidator.validate: (is_valid, msg, quick_stats)
Validate(text, level) ==
    LET txt == Strip(text)
    IN  IF TooShort(txt)
        THEN [ok |-> FALSE, msg |-> "too_short", stats |-> EmptyStats]
        ELSE IF IsGarbage(txt)
        THEN [ok |-> FALSE, msg |-> "meta_garbage", stats |-> EmptyStats]
        ELSE LET nwords == Cardinality(FindWords(LowerText(txt)))
             IN  IF NotEnoughWords(nwords)
                 THEN [ok |-> FALSE, msg |-> "not_enough_russian_words",
                       stats |-> EmptyStats]
                 ELSE LET stats == QuickStats(nwords, Cardinality(Sentences(txt)))
                      IN  IF ~InBand(stats.word_count, level)
                          THEN [ok |-> FALSE, msg |-> "len_out_of_bounds",
                                stats |-> stats]
                          ELSE [ok |-> TRUE, msg |-> "ok", stats |-> stats]

\* ------------------------------------------------------------------------
\* State
\* ------------------------------------------------------------------------

VARIABLES
    cfg,        \* Config: target_count_per_level, batch_size, max_retries
    stop,       \* _GracefulExit.stop of the running process
    files,      \* level_<l>.csv in the output directory, for each level
    pc,         \* where the process is
    arg,        \* the command line: --level l, or 0 for no --level
    mode,       \* what main dispatched to: "level" or "all"
    lvl,        \* generate_level: level (generate_all: lvl)
    done,       \* generate_level: done
    batch,      \* generate_level: batch
    attempt,    \* _generate_one: attempt
    rec,        \* what _generate_one returned: <<>> for None, <<record>> otherwise
    calls,      \* external calls issued by the current _generate_one
    sleeps,     \* time.sleep(2) calls finished by the current _generate_one
    resp,       \* the index in ApiContents[lvl] of the text the last external call
                \* of the current _generate_one returned, 0 when it returned none
    outcome,    \* how the last external call of the current _generate_one ended
    clock,      \* the UTC clock datetime.utcnow() reads
    start,      \* history: level_<level>.csv as generate_level found it
    accepted,   \* history: the records this generate_level call has accepted
    completed,  \* history: the levels for which a generate_level call has
                \* returned with done >= target
    failed,     \* history: some _generate_one of this generate_level call
                \* has returned None
    late,       \* history: the records this generate_level call has added to
                \* its batch with the flag set
    vtext,      \* validate called on its own: the text
    vlevel,     \* validate called on its own: the level
    vres        \* validate called on its own: what it returned

vars ==
    <<cfg, arg, stop, files, pc, mode, lvl, done, batch, attempt, rec, calls,
      sleeps, resp, outcome, clock, start, accepted, completed, failed, late,
      vtext, vlevel, vres>>

\* --- bounds of the model ---

\* the largest target_count_per_level (--count)
MaxTarget == 2

\* the largest batch_size
MaxBatch == 2

\* the largest max_retries
MaxRetries == 3

\* no validate call yet
NoResult == [ok |-> FALSE, msg |-> "none", stats |-> EmptyStats]

\* ------------------------------------------------------------------------
\* The external model: what client.chat.completions.create can answer
\* ------------------------------------------------------------------------

\* n copies of unit, one after the other
Repeat(unit, n) == [i \in 1..(n * Len(unit)) |-> unit[((i - 1) % Len(unit)) + 1]]

\* n one-letter Russian words, each followed by sep
WordsText(n, sep) == Repeat(<<"a">> \o sep, n)

\* message.content of a response for level l: texts at the edges of the level's
\* band, with and without line breaks inside, padded with white space, and
\* texts the validator rejects; the last two are white space only and the
\* empty string
ContentsFor(l) ==
    << <<" ">> \o WordsText(MinWords[l], <<" ">>) \o <<"NL">>,
       WordsText(1, <<"NL">>) \o WordsText(MinWords[l] - 1, <<" ">>),
       WordsText(MinWords[l] - 1, <<" ">>) \o <<>>,
       WordsText(MaxWords[l] + 1, <<" ">>) \o <<>>,
       <<"ya", " ", "s", "o", "z", "d", "a", "m", " ">>
           \o WordsText(MinWords[l], <<" ">>),
       <<" ", "NL">>,
       <<>> >>

\* the answers by level (a sequence indexed by the level)
ApiContents == <<ContentsFor(1), ContentsFor(2), ContentsFor(3)>>

\* how an external call that returns no text ends: the client raises, or the
\* response carries no content (None)
ApiFailures == {"error", "missing"}

\* validate(text, level) for the texts the external model can answer, computed
\* once
ValidatedFor(l) ==
    [i \in DOMAIN ApiContents[l] |->
        LET text == Strip(ApiContents[l][i])
        IN  [text |-> text, res |-> Validate(text, l)]] \o <<>>

Validated == <<ValidatedFor(1), ValidatedFor(2), ValidatedFor(3)>>

\* ------------------------------------------------------------------------
\* The durable store: level_<l>.csv
\* ------------------------------------------------------------------------

\* weighted_random_genre(): an opaque label
Genres == {"genre"}


NoFile == [exists |-> FALSE, rows |-> <<>>]

HeaderRow == [kind |-> "header"]

DataRow(r) == [kind |-> "data", rec |-> r]

\* the line breaks inside a text
LineBreaks(t) == Cardinality({i \in 1..Len(t) : IsLineBreak(t[i])})

\* the description of a record: the state holds its index in
\* ApiContents[level], this is the stripped text itself
DescriptionText(r) == Validated[r.level][r.description].text

\* the lines a csv row takes in the file: a field that holds line breaks is
\* written quoted, with the line breaks in it
RowLines(row) ==
    IF row.kind = "header" THEN 1 ELSE 1 + LineBreaks(DescriptionText(row.rec))

RECURSIVE SumLines(_)
SumLines(rows) ==
    IF rows = <<>> THEN 0 ELSE RowLines(Head(rows)) + SumLines(Tail(rows))

\* sum(1 for _ in open(file_csv, encoding="utf-8"))
CountLines(file) == SumLines(file.rows)

\* done = <lines of the file> - 1 if file_csv.exists() else 0
ResumeCount(file) == IF file.exists THEN CountLines(file) - 1 ELSE 0

\* SaveBatch that writes the rows of the batch last one first
SaveBatchReversed(b, file) ==
    [exists |-> TRUE,
     rows |-> file.rows
              \o (IF ~file.exists THEN <<HeaderRow>> ELSE <<>>)
              \o [i \in 1..Len(b) |-> DataRow(b[Len(b) + 1 - i])]]

\* SaveBatch that writes the header with every batch
SaveBatchAlwaysHeader(b, file) ==
    [exists |-> TRUE,
     rows |-> file.rows \o <<HeaderRow>> \o [i \in 1..Len(b) |-> DataRow(b[i])]]

\* df.to_csv(path, mode="a", header=not path.exists(), index=False)
SaveBatch(b, file) ==
    [exists |-> TRUE,
     rows |-> file.rows
              \o (IF ~file.exists THEN <<HeaderRow>> ELSE <<>>)
              \o [i \in 1..Len(b) |-> DataRow(b[i])]]

\* the data rows of a file, in file order
DataRecords(file) ==
    LET idx == {i \in 1..Len(file.rows) : file.rows[i].kind = "data"}
        nth(k) == CHOOSE i \in idx : Cardinality({j \in idx : j < i}) = k - 1
    IN  [k \in 1..Cardinality(idx) |-> file.rows[nth(k)].rec]

HeaderCount(file) ==
    Cardinality({i \in 1..Len(file.rows) : file.rows[i].kind = "header"})

\* ------------------------------------------------------------------------
\* DatasetGenerator (generator.py)
\* ------------------------------------------------------------------------

Init ==
    /\ cfg \in [target : 1..MaxTarget, batch_size : 1..MaxBatch,
                max_retries : 1..MaxRetries]
    /\ arg \in {0} \cup Levels
    /\ stop = FALSE
    /\ files = [l \in Levels |-> NoFile]
    /\ pc = "start"
    /\ mode = "none"
    /\ lvl = 0
    /\ done = 0
    /\ batch = <<>>
    /\ attempt = 0
    /\ rec = <<>>
    /\ calls = 0
    /\ sleeps = 0
    /\ resp = 0
    /\ outcome = "none"
    /\ clock = 0
    /\ start = NoFile
    /\ accepted = <<>>
    /\ completed = {}
    /\ failed = FALSE
    /\ late = 0
    /\ vtext = <<>>
    /\ vlevel = 0
    /\ vres = NoResult

\* Config and the command line; neither changes
envVars == <<cfg, arg>>

\* the locals of _generate_one
callVars == <<attempt, rec, calls, sleeps, resp, outcome>>

validatorVars == <<vtext, vlevel, vres>>

\* what this generate_level call found and has done so far
runVars == <<start, accepted, failed, late>>

\* _GracefulExit._handler: SIGINT or SIGTERM delivered to the running process
Signal ==
    /\ pc \notin {"exited", "validator", "validated"}
    /\ stop' = TRUE
    /\ UNCHANGED <<envVars, files, pc, mode, lvl, done, batch, callVars, clock,
                   runVars, completed, validatorVars>>

\* generate_level, lines 76-81: RESUMING
EnterLevel(l) ==
    /\ lvl' = l
    /\ done' = ResumeCount(files[l])
    /\ batch' = <<>>
    /\ start' = files[l]
    /\ accepted' = <<>>
    /\ failed' = FALSE
    /\ late' = 0
    /\ pc' = "loop"

\* main: generator.generate_level(args.level)
StartLevel ==
    /\ pc = "start"
    /\ arg \in Levels
    /\ EnterLevel(arg)
    /\ mode' = "level"
    /\ UNCHANGED <<envVars, stop, files, callVars, clock, completed, validatorVars>>

\* main: generator.generate_all()
StartAll ==
    /\ pc = "start"
    /\ arg = 0
    /\ mode' = "all"
    /\ lvl' = 1
    /\ pc' = "all"
    /\ UNCHANGED <<envVars, stop, files, done, batch, callVars, clock, runVars,
                   completed, validatorVars>>

\* AllStep without the look at the flag
AllStepIgnoresStop ==
    /\ pc = "all"
    /\ IF lvl > 3
       THEN /\ pc' = "exited"
            /\ UNCHANGED <<lvl, done, batch, runVars>>
       ELSE EnterLevel(lvl)
    /\ UNCHANGED <<envVars, stop, files, mode, callVars, clock, completed,
                   validatorVars>>

\* generate_all, lines 101-104: one turn of  for lvl in (1, 2, 3)
AllStep ==
    /\ pc = "all"
    /\ IF lvl > 3 \/ stop
       THEN /\ pc' = "exited"
            /\ UNCHANGED <<lvl, done, batch, runVars>>
       ELSE EnterLevel(lvl)
    /\ UNCHANGED <<envVars, stop, files, mode, callVars, clock, completed,
                   validatorVars>>

\* LoopCheck that does not look at the flag
LoopCheckIgnoresStop ==
    /\ pc = "loop"
    /\ IF done < cfg.target THEN pc' = "gen" ELSE pc' = "final"
    /\ UNCHANGED <<envVars, stop, files, mode, lvl, done, batch, callVars, clock,
                   runVars, completed, validatorVars>>

\* LoopCheck that takes the flag down once it has seen it
LoopCheckClearsFlag ==
    /\ pc = "loop"
    /\ IF done < cfg.target /\ ~stop THEN pc' = "gen" ELSE pc' = "final"
    /\ stop' = FALSE
    /\ UNCHANGED <<envVars, files, mode, lvl, done, batch, callVars, clock,
                   runVars, completed, validatorVars>>

\* generate_level, line 83: the loop condition; a true one calls _generate_one
LoopCheck ==
    /\ pc = "loop"
    /\ IF done < cfg.target /\ ~stop THEN pc' = "gen" ELSE pc' = "final"
    /\ UNCHANGED <<envVars, stop, files, mode, lvl, done, batch, callVars, clock,
                   runVars, completed, validatorVars>>

\* the dict _generate_one returns for an accepted text; the description is
\* held as the index i of the text in ApiContents[l] (see DescriptionText)
NewRecord(l, genre, i, stats, now) ==
    [level |-> l, genre |-> genre, description |-> i,
     word_count |-> stats.word_count, timestamp |-> now]

\* OnText that goes on to the next attempt after a rejection
OnTextRetryRejected(i, genre) ==
    LET v == Validated[lvl][i].res
    IN  /\ outcome' = v.msg
        /\ resp' = i
        /\ IF v.ok
           THEN /\ rec' = <<NewRecord(lvl, genre, i, v.stats, clock)>>
                /\ clock' = clock + 1
                /\ pc' = "append"
           ELSE /\ rec' = <<>>
                /\ clock' = clock
                /\ pc' = "sleep"

\* _generate_one, lines 121-132: the text of response i of ApiContents is
\* stripped and validated; the record or None is returned at once
OnText(i, genre) ==
    LET v == Validated[lvl][i].res
    IN  /\ outcome' = v.msg
        /\ resp' = i
        /\ pc' = "append"
        /\ IF v.ok
           THEN /\ rec' = <<NewRecord(lvl, genre, i, v.stats, clock)>>
                /\ clock' = clock + 1
           ELSE /\ rec' = <<>>
                /\ clock' = clock

\* _generate_one, lines 133-134: the except branch, entered when the client
\* raises or when .strip() is called on a missing content
OnException(kind) ==
    /\ outcome' = kind
    /\ resp' = 0
    /\ pc' = "sleep"
    /\ UNCHANGED <<rec, clock>>

\* MoreAttempts with one attempt too many
MoreAttemptsOneExtra(a) == a <= cfg.max_retries

\* _generate_one, line 110: for attempt in range(self.cfg.max_retries)
MoreAttempts(a) == a < cfg.max_retries

\* _generate_one, lines 110-134: one turn of the attempt loop, up to the
\* return or the sleep
ApiCall ==
    /\ pc = "gen"
    /\ MoreAttempts(attempt)
    /\ calls' = calls + 1
    /\ \/ \E i \in DOMAIN ApiContents[lvl], genre \in Genres : OnText(i, genre)
       \/ \E kind \in ApiFailures : OnException(kind)
    /\ UNCHANGED <<envVars, stop, files, mode, lvl, done, batch, attempt, sleeps,
                   runVars, completed, validatorVars>>

\* _generate_one, line 135: time.sleep(2) returns, the next attempt starts
Wake ==
    /\ pc = "sleep"
    /\ sleeps' = sleeps + 1
    /\ attempt' = attempt + 1
    /\ pc' = "gen"
    /\ UNCHANGED <<envVars, stop, files, mode, lvl, done, batch, rec, calls,
                   resp, outcome, clock, runVars, completed, validatorVars>>

\* Exhausted that starts the attempts over instead of giving up
ExhaustedStartsOver ==
    /\ pc = "gen"
    /\ ~MoreAttempts(attempt)
    /\ attempt' = 0
    /\ calls' = 0
    /\ sleeps' = 0
    /\ pc' = "gen"
    /\ UNCHANGED <<envVars, stop, files, mode, lvl, done, batch, rec, resp,
                   outcome, clock, runVars, completed, validatorVars>>

\* _generate_one, line 136: the attempts are used up
Exhausted ==
    /\ pc = "gen"
    /\ ~MoreAttempts(attempt)
    /\ rec' = <<>>
    /\ pc' = "append"
    /\ UNCHANGED <<envVars, stop, files, mode, lvl, done, batch, attempt, calls,
                   sleeps, resp, outcome, clock, runVars, completed,
                   validatorVars>>

\* Accumulate that counts a None as a record made
AccumulateCountsNone ==
    /\ pc = "append"
    /\ LET b == IF rec # <<>> THEN Append(batch, rec[1]) ELSE batch
       IN  /\ done' = done + 1
           /\ IF Len(b) >= cfg.batch_size
              THEN /\ files' = [files EXCEPT ![lvl] = SaveBatch(b, files[lvl])]
                   /\ batch' = <<>>
              ELSE /\ files' = files
                   /\ batch' = b
    /\ accepted' = IF rec # <<>> THEN Append(accepted, rec[1]) ELSE accepted
    /\ failed' = (failed \/ rec = <<>>)
    /\ late' = IF rec # <<>> /\ stop THEN late + 1 ELSE late
    /\ pc' = "loop"
    /\ rec' = <<>>
    /\ attempt' = 0
    /\ calls' = 0
    /\ sleeps' = 0
    /\ resp' = 0
    /\ outcome' = "none"
    /\ UNCHANGED <<envVars, stop, mode, lvl, clock, start, completed,
                   validatorVars>>

\* generate_level, lines 85-92: the record joins the batch, a full batch is saved
Accumulate ==
    /\ pc = "append"
    /\ LET b == IF rec # <<>> THEN Append(batch, rec[1]) ELSE batch
       IN  /\ done' = IF rec # <<>> THEN done + 1 ELSE done
           /\ IF Len(b) >= cfg.batch_size
              THEN /\ files' = [files EXCEPT ![lvl] = SaveBatch(b, files[lvl])]
                   /\ batch' = <<>>
              ELSE /\ files' = files
                   /\ batch' = b
    /\ accepted' = IF rec # <<>> THEN Append(accepted, rec[1]) ELSE accepted
    /\ failed' = (failed \/ rec = <<>>)
    /\ late' = IF rec # <<>> /\ stop THEN late + 1 ELSE late
    /\ pc' = "loop"
    /\ rec' = <<>>
    /\ attempt' = 0
    /\ calls' = 0
    /\ sleeps' = 0
    /\ resp' = 0
    /\ outcome' = "none"
    /\ UNCHANGED <<envVars, stop, mode, lvl, clock, start, completed,
                   validatorVars>>

\* FinalFlush that drops what is left of the batch
FinalFlushSkipped(b, file) == file

\* generate_level, lines 94-95: if batch: self._save_batch(batch, file_csv)
FinalFlush(b, file) == IF b # <<>> THEN SaveBatch(b, file) ELSE file

\* generate_level, lines 94-96: the rest of the batch is saved and the call
\* returns; its local batch is gone
Finish ==
    /\ pc = "final"
    /\ files' = [files EXCEPT ![lvl] = FinalFlush(batch, files[lvl])]
    /\ batch' = <<>>
    /\ pc' = "returned"
    /\ completed' = IF done >= cfg.target THEN completed \cup {lvl} ELSE completed
    /\ UNCHANGED <<envVars, stop, mode, lvl, done, callVars, clock, runVars,
                   validatorVars>>

\* the return of generate_level: to the loop of generate_all, or to main,
\* which exits
Return ==
    /\ pc = "returned"
    /\ IF mode = "all"
       THEN pc' = "all" /\ lvl' = lvl + 1
       ELSE pc' = "exited" /\ lvl' = lvl
    /\ UNCHANGED <<envVars, stop, files, mode, done, batch, callVars, clock,
                   runVars, completed, validatorVars>>

\* the program is started again with the same command line on the same output
\* directory: a new process, with a new _GracefulExit
Restart ==
    /\ pc = "exited"
    /\ pc' = "start"
    /\ stop' = FALSE
    /\ mode' = "none"
    /\ lvl' = 0
    /\ done' = 0
    /\ start' = NoFile
    /\ accepted' = <<>>
    /\ failed' = FALSE
    /\ late' = 0
    /\ UNCHANGED <<envVars, files, batch, callVars, clock, completed,
                   validatorVars>>

Next ==
    \/ Signal
    \/ StartLevel
    \/ StartAll
    \/ AllStep
    \/ LoopCheck
    \/ ApiCall
    \/ Wake
    \/ Exhausted
    \/ Accumulate
    \/ Finish
    \/ Return
    \/ Restart

Spec == Init /\ [][Next]_vars

\* ------------------------------------------------------------------------
\* TextValidator.validate called on its own
\* ------------------------------------------------------------------------

\* how far around each edge of a band the word counts of the long texts go
EdgeSlack == 1

\* what a text starts with
Prefixes ==
    { <<>>,
      <<" ", "NL">>,
      <<"ya", " ", "s", "o", "z", "d", "a", "m">>,
      <<"ya", " ", "s", "o", "z", "d", "a", "m", " ">>,
      <<"YA", " ", "S", "O", "Z", "D", "A", "M", ".">>,
      <<"ya", " ", "s", "o", "z", "d", "a", "m", "_", " ">>,
      <<"ya", " ", "s", "o", "z", "d", "a", "m", "1", " ">>,
      <<"m", "o", "ya", " ", "s", "o", "z", "d", "a", "m", ",">>,
      <<"ya", "NL", " ", "o", "p", "i", "sh", "u", " ">>,
      <<"N", "a", "p", "i", "sh", "u", "!">>,
      <<"i", "z", "v", "i", "n", "i", "t", "e">>,
      <<"k", " ", "s", "o", "zh", "a", "l", "e", "n", "i", "yu", " ">>,
      <<"s", "t", "r", "u", "k", "t", "u", "r", "a", " ",
        "o", "p", "i", "s", "a", "n", "i", "ya", " ">>,
      <<"x", " ", "X", "_", " ">> }

\* what a text ends with
Suffixes ==
    { <<>>,
      <<" ", "NL">>,
      <<"?", "ya", " ", "s", "o", "z", "d", "a", "m">> }

\* a word and what follows it
Units ==
    { <<"a", " ">>,
      <<"YO", "NL">>,
      <<"yo", "zh", ".", " ">>,
      <<"a", "1", " ">>,
      <<"a", ",">>,
      <<"X", " ">> }

\* the word counts around 5 (the least that makes 10 characters) and around 8
ShortCounts == 0..(MinRussianWords + 1)

\* the word counts around the edges of the bands
EdgeCounts ==
    UNION {{MinWords[l] + d, MaxWords[l] + d} :
               l \in Levels, d \in (0 - EdgeSlack)..EdgeSlack}

\* word counts inside and below the band of level 1
InnerCounts == {45, 80}

\* the texts validate is called on: every prefix, unit and suffix around a
\* short run of units, and long runs around the edges of the bands and
\* inside the band of level 1
Texts ==
    {pre \o Repeat(unit, n) \o suf :
        pre \in Prefixes, unit \in Units, n \in ShortCounts, suf \in Suffixes}
    \cup
    {pre \o Repeat(unit, n) \o <<>> :
        pre \in {<<>>,
                 <<"ya", " ", "s", "o", "z", "d", "a", "m">>,
                 <<"ya", " ", "s", "o", "z", "d", "a", "m", " ">>},
        unit \in {<<"a", " ">>, <<"YO", "NL">>, <<"yo", "zh", ".", " ">>},
        n \in EdgeCounts \cup InnerCounts}

InitV ==
    /\ cfg = [target |-> 1, batch_size |-> 1, max_retries |-> 1]
    /\ arg = 0
    /\ stop = FALSE
    /\ files = [l \in Levels |-> NoFile]
    /\ pc = "validator"
    /\ mode = "none"
    /\ lvl = 0
    /\ done = 0
    /\ batch = <<>>
    /\ attempt = 0
    /\ rec = <<>>
    /\ calls = 0
    /\ sleeps = 0
    /\ resp = 0
    /\ outcome = "none"
    /\ clock = 0
    /\ start = NoFile
    /\ accepted = <<>>
    /\ completed = {}
    /\ failed = FALSE
    /\ late = 0
    /\ vtext = <<>>
    /\ vlevel = 0
    /\ vres = NoResult

\* validator.validate(text, l)
ValidateCall ==
    /\ pc = "validator"
    /\ \E text \in Texts, l \in Levels :
          /\ vtext' = text
          /\ vlevel' = l
          /\ vres' = Validate(text, l)
    /\ pc' = "validated"
    /\ UNCHANGED <<envVars, stop, files, mode, lvl, done, batch, callVars, clock,
                   runVars, completed>>

SpecV == InitV /\ [][ValidateCall]_vars

\* the pipeline and the validator on its own, side by side
SpecAll == (Init \/ InitV) /\ [][Next \/ ValidateCall]_vars

\* ------------------------------------------------------------------------
\* Runs on an output directory that holds files the runs did not write
\* ------------------------------------------------------------------------

\* level_<l>.csv exists and holds nothing
EmptyFile == [exists |-> TRUE, rows |-> <<>>]

\* level_<l>.csv holds the header row and nothing else
HeaderOnlyFile == [exists |-> TRUE, rows |-> <<HeaderRow>>]

\* what the first run may find in the place of each file
FoundFiles == {NoFile, EmptyFile, HeaderOnlyFile}

\* the first run finds every file in one of these states; one attempt per
\* record
InitStore ==
    /\ cfg \in [target : 1..MaxTarget, batch_size : 1..MaxBatch,
                max_retries : {1}]
    /\ arg \in {0} \cup Levels
    /\ stop = FALSE
    /\ \E f \in FoundFiles : files = [l \in Levels |-> f]
    /\ pc = "start"
    /\ mode = "none"
    /\ lvl = 0
    /\ done = 0
    /\ batch = <<>>
    /\ attempt = 0
    /\ rec = <<>>
    /\ calls = 0
    /\ sleeps = 0
    /\ resp = 0
    /\ outcome = "none"
    /\ clock = 0
    /\ start = NoFile
    /\ accepted = <<>>
    /\ completed = {}
    /\ failed = FALSE
    /\ late = 0
    /\ vtext = <<>>
    /\ vlevel = 0
    /\ vres = NoResult

SpecStore == InitStore /\ [][Next]_vars

\* ------------------------------------------------------------------------
\* One run of  --level l, which goes on as long as it has a step to take
\* ------------------------------------------------------------------------

\* the steps of the process itself: all but the delivery of a signal
ProgramStep ==
    \/ StartLevel
    \/ LoopCheck
    \/ ApiCall
    \/ Wake
    \/ Exhausted
    \/ Accumulate
    \/ Finish
    \/ Return

\* one process, from its start to its exit
NextRun == Signal \/ ProgramStep

\* the process is started with --level l on an empty output directory
InitLevel == Init /\ arg \in Levels

\* the interpreter runs the process on: an external call returns or raises, a
\* sleep ends, a statement that can run does; a signal may never come
SpecLive == InitLevel /\ [][NextRun]_vars /\ WF_vars(ProgramStep)

\* ------------------------------------------------------------------------
\* Properties of DatasetGenerator
\* ------------------------------------------------------------------------

\* the records of a level's file
Stored(l) == DataRecords(files[l])

IsPrefix(s, t) == Len(s) <= Len(t) /\ SubSeq(t, 1, Len(s)) = s

\* generate_level is running on level lvl
InLevel == pc \in {"loop", "gen", "sleep", "append", "final"}

\* C1: a generate_level call that finds k records in the file of its level,
\* with k below the target n, and that is not cancelled and sees no
\* _generate_one return None, returns after accepting and saving exactly
\* n - k records, so that the file holds exactly n records.
C1_Original ==
    (/\ pc = "returned"
     /\ ~stop
     /\ ~failed
     /\ Len(DataRecords(start)) < cfg.target)
    => (/\ Len(accepted) = cfg.target - Len(DataRecords(start))
        /\ Len(Stored(lvl)) = cfg.target)

\* the shape of every file: absent and empty, or one header row, first
C2_StoreShape ==
    \A l \in Levels :
        IF files[l].exists
        THEN HeaderCount(files[l]) = 1 /\ files[l].rows[1] = HeaderRow
        ELSE files[l].rows = <<>>

\* what every step does to every file: rows are only added at the end, a header
\* only to a file that did not exist, and nothing to the file of a level that a
\* generate_level call has completed
C2_StoreStep ==
    \A l \in Levels :
        /\ IsPrefix(files[l].rows, files'[l].rows)
        /\ HeaderCount(files'[l]) > HeaderCount(files[l]) => ~files[l].exists
        /\ l \in completed => files'[l] = files[l]

\* C2: over all runs, cancellations and restarts on the same output directory,
\* a file that exists holds exactly one header row, its first row, written by
\* the save that created the file; the rows of a file are never removed or
\* changed; and once generate_level has completed a level, no later run writes
\* a header or a row to its file.
C2_HeaderOnce == []C2_StoreShape /\ [][C2_StoreStep]_vars

\* a restarted generate_level has found its level complete and has returned
\* with the file as it found it
C2_Witness ==
    /\ pc = "returned"
    /\ lvl \in completed
    /\ start.exists
    /\ accepted = <<>>
    /\ done >= cfg.target
    /\ files[lvl] = start
    /\ HeaderCount(files[lvl]) = 1

\* C3: while generate_level runs, the records it has accepted are the ones it
\* has added to the file followed by the ones in the batch; when it returns,
\* cancelled or not, all of them are in the file after the records the file
\* held before: the rest of the batch has been saved.
C3_NoRecordLost ==
    /\ InLevel => Stored(lvl) \o batch = DataRecords(start) \o accepted
    /\ pc = "returned" => Stored(lvl) = DataRecords(start) \o accepted

\* a cancelled generate_level has returned below its target, and its last
\* save was of a batch that was not full
C3_Witness ==
    /\ pc = "returned"
    /\ stop
    /\ done < cfg.target
    /\ cfg.batch_size = 2
    /\ Len(accepted) = 1
    /\ Stored(lvl) = DataRecords(start) \o accepted

\* C4: the count generate_level would resume from equals the number of
\* records saved to the file so far, for every file the runs can produce, and
\* is 0 for a file that does not exist.
C4_Original ==
    \A l \in Levels : ResumeCount(files[l]) = Len(Stored(l))

RejectionMsgs ==
    {"too_short", "meta_garbage", "not_enough_russian_words", "len_out_of_bounds"}

\* C5: in _generate_one, the first external call that returns a text ends the
\* call: after a rejected text _generate_one has returned None, whatever
\* attempts are left, and no further external call is made; after an accepted
\* text it has returned the record.
C5_FirstResponseEnds ==
    /\ outcome \in RejectionMsgs => (pc = "append" /\ rec = <<>>)
    /\ outcome = "ok" =>
           (/\ pc = "append"
            /\ rec # <<>>
            /\ Validated[lvl][rec[1].description].res.ok)
    /\ (pc = "append" /\ outcome \in RejectionMsgs \cup {"ok"}) =>
           (calls = sleeps + 1 /\ calls <= cfg.max_retries)

\* one failure, then a text that is flagged as garbage, with an attempt left
C5_Witness ==
    /\ pc = "append"
    /\ cfg.max_retries = 3
    /\ calls = 2
    /\ sleeps = 1
    /\ outcome = "meta_garbage"
    /\ rec = <<>>

\* C6: in _generate_one, a failed external call is followed by one sleep and
\* then the next attempt; one _generate_one makes at most max_retries external
\* calls; when all max_retries calls have failed it returns None to
\* generate_level, which goes on.
C6_RetryBounded ==
    /\ calls <= cfg.max_retries
    /\ pc = "gen" => (calls = attempt /\ sleeps = attempt)
    /\ pc = "sleep" =>
           (calls = attempt + 1 /\ sleeps = attempt /\ outcome \in ApiFailures)
    /\ outcome \in ApiFailures => pc \in {"sleep", "gen", "append"}
    /\ (pc = "append" /\ outcome \in ApiFailures) =>
           (/\ rec = <<>>
            /\ calls = cfg.max_retries
            /\ sleeps = cfg.max_retries)

\* every attempt of a _generate_one has failed, and there was more than one
C6_Witness ==
    /\ pc = "append"
    /\ outcome \in ApiFailures
    /\ cfg.max_retries >= 2
    /\ calls = cfg.max_retries
    /\ sleeps = cfg.max_retries
    /\ rec = <<>>

\* the last external call returned a text that is empty or white space only
EmptyResponse == resp # 0 /\ Strip(ApiContents[lvl][resp]) = <<>>

\* the last external call returned a response without content
MissingResponse == outcome = "missing"

\* C11: a response whose content is the empty string, white space only or
\* missing makes _generate_one return None at once, as a rejected text does:
\* no sleep and no further external call follow it.
C11_Original ==
    (EmptyResponse \/ MissingResponse) =>
        (/\ pc = "append"
         /\ rec = <<>>
         /\ calls = sleeps + 1)

\* what every step of generate_all does
C12_Step ==
    /\ (mode # "all" /\ mode' = "all") => lvl' = 1
    /\ (mode = "all" /\ mode' = "all" /\ lvl' # lvl) =>
           (pc = "returned" /\ lvl' = lvl + 1)
    /\ (pc = "all" /\ pc' = "loop") => (~stop /\ lvl \in Levels /\ lvl' = lvl)
    /\ (pc = "all" /\ stop) => pc' \in {"all", "exited"}
    /\ (mode = "all" /\ InLevel /\ ~InLevel') =>
           (pc = "final" /\ pc' = "returned")
    /\ (mode = "all" /\ pc # "final" /\ pc' = "final") =>
           (pc = "loop" /\ (stop \/ done >= cfg.target))

\* C12: generate_all starts with level 1 and goes from a level to the next one
\* only when generate_level has returned; it enters generate_level only with
\* the flag false, and with the flag true it ends; a generate_level that is
\* running ends only through its own loop condition and its final save.
C12_FixedOrder == [][C12_Step]_vars

\* generate_all has ended on the flag before level 2, after level 1 returned
C12_Witness ==
    /\ mode = "all"
    /\ pc = "exited"
    /\ stop
    /\ lvl = 2
    /\ files[1].exists
    /\ ~files[2].exists

\* what a step may do to the flag
C13_Step ==
    /\ (~stop /\ stop') =>
           UNCHANGED <<envVars, files, pc, mode, lvl, done, batch, callVars,
                       clock, runVars, completed, validatorVars>>
    /\ (stop /\ ~stop') => (pc = "exited" /\ pc' = "start")
    /\ (pc # "start" /\ pc' = "start") => ~stop'

\* C13: the flag of a process starts false; a step that sets it does nothing
\* else (it is the signal handler's); and no step of generate_all,
\* generate_level, _generate_one or validate sets it back: the flag is false
\* again only in a new process, started after the cancelled one has exited.
C13_Monotonic == ~stop /\ [][C13_Step]_vars

\* the flag was set, the loop of generate_level has seen it and has ended
\* below its target, and the flag is still set
C13_Witness ==
    /\ stop
    /\ pc = "final"
    /\ done < cfg.target

\* what a step does while the flag is set
C14_Step ==
    /\ (stop /\ pc \in {"gen", "sleep"}) => pc' \in {"gen", "sleep", "append"}
    /\ (stop /\ pc = "append") => pc' \in {"append", "loop"}
    /\ (stop /\ pc = "loop") => pc' \in {"loop", "final"}
    /\ (pc = "loop" /\ pc' = "gen") => ~stop

\* C14: with the flag set, a _generate_one that is running (in an external
\* call, in a sleep, with attempts left) goes on to its return and its result
\* is added to the batch; generate_level looks at the flag at its next loop
\* condition and calls _generate_one no more; so a generate_level call adds at
\* most one record with the flag set.
C14_Cooperative == [](late <= 1) /\ [][C14_Step]_vars

\* a record was added to the batch with the flag set, and the loop has then
\* ended on the flag, below the target
C14_Witness ==
    /\ stop
    /\ late = 1
    /\ pc = "final"
    /\ done < cfg.target
    /\ accepted # <<>>

\* what generate_level does with a None from _generate_one, and after it
C16_Step ==
    /\ (pc = "append" /\ rec = <<>> /\ pc' # "append") =>
           (/\ pc' = "loop"
            /\ done' = done
            /\ batch' = batch
            /\ files' = files)
    /\ (pc = "loop" /\ pc' # "loop" /\ done < cfg.target /\ ~stop) => pc' = "gen"

\* C16: when _generate_one has returned None, after a rejected text or after
\* max_retries failed calls, generate_level leaves done, the batch and the
\* files as they are and goes back to its loop condition, which calls
\* _generate_one again while the target is not reached and the flag is not set.
C16_NoneAbsorbed == [][C16_Step]_vars

\* after a None, with a record waiting in the batch, the next _generate_one
\* has been called
C16_Witness ==
    /\ pc = "gen"
    /\ calls = 0
    /\ failed
    /\ batch # <<>>
    /\ done = ResumeCount(start) + Len(accepted)

\* the records of every file are in the order of their timestamps
C17_ByTimestamp ==
    \A l \in Levels :
        LET recs == Stored(l)
        IN  \A i \in 1..(Len(recs) - 1) :
                recs[i].timestamp < recs[i + 1].timestamp

\* what a step does to the files: the rows a file has stay where they are;
\* a save of generate_level adds the records of the batch, in the order of
\* the batch, after them
C17_Step ==
    IF files' = files
    THEN /\ (pc = "append" /\ pc' # pc) => batch' = batch \o rec
         /\ (pc = "final" /\ pc' # pc) => batch = <<>>
    ELSE /\ pc \in {"append", "final"}
         /\ \A l \in Levels \ {lvl} : files'[l] = files[l]
         /\ IsPrefix(files[lvl].rows, files'[lvl].rows)
         /\ DataRecords(files'[lvl])
                = Stored(lvl) \o batch \o (IF pc = "append" THEN rec ELSE <<>>)
         /\ pc = "append" => batch' = <<>>

\* C17: the records of a level's file are in the order in which they were
\* accepted: a save appends the batch in its order, the batch holds the
\* records in the order _generate_one returned them, and no save moves or
\* rewrites a row that is in the file.
C17_GenerationOrder == []C17_ByTimestamp /\ [][C17_Step]_vars

\* a batch of two records has been saved by one save
C17_Witness ==
    /\ pc = "loop"
    /\ cfg.batch_size = 2
    /\ Len(accepted) = 2
    /\ batch = <<>>
    /\ Stored(lvl) = DataRecords(start) \o accepted
    /\ accepted[1].timestamp < accepted[2].timestamp

\* C18: at every loop condition of generate_level, done is the count it
\* resumed from, plus the records this call has saved, plus the length of the
\* batch; and when generate_level has returned, the batch is empty and done is
\* the number of records in the file.
C18_Original ==
    /\ pc = "loop" =>
           done = ResumeCount(start) + (Len(accepted) - Len(batch)) + Len(batch)
    /\ pc = "returned" => (batch = <<>> /\ done = Len(Stored(lvl)))

\* C19: the count generate_level resumes from is never negative, whatever it
\* finds in the place of the file (nothing, an empty file, the header alone,
\* the header and records), and no file ever holds more records than the
\* target.
C19_Original ==
    /\ InLevel => done >= 0
    /\ \A l \in Levels : Len(Stored(l)) <= cfg.target

\* generate_level adds an accepted record to its batch
AcceptStep == pc = "append" /\ rec # <<>> /\ pc' = "loop"

\* C20: every _generate_one call returns, after at most max_retries external
\* calls; and every generate_level call returns if the flag is set at some
\* time or if _generate_one keeps returning accepted records.
C20_Terminates ==
    /\ [](calls <= cfg.max_retries)
    /\ (pc \in {"gen", "sleep"}) ~> (pc = "append")
    /\ ([]<>stop \/ []<><<AcceptStep>>_vars) => (InLevel ~> (pc = "returned"))

\* a generate_level call in which every _generate_one returned None has
\* returned on the flag
C20_Witness ==
    /\ pc = "returned"
    /\ stop
    /\ failed
    /\ accepted = <<>>
    /\ done < cfg.target

\* the same without the condition: generate_level returns whatever
\* _generate_one returns and whether or not a signal comes.  This does not
\* hold: when every _generate_one returns None and no signal comes, the loop
\* of generate_level has no bound.
C20_AlwaysReturns == InLevel ~> (pc = "returned")

\* ------------------------------------------------------------------------
\* Properties of TextValidator.validate
\* ------------------------------------------------------------------------

\* a validate call has returned
Validated1 == pc = "validated"

\* the number of Russian words of the stripped text of the call
CallWords == Cardinality(FindWords(LowerText(Strip(vtext))))

\* C7: validate tries its rejections in the order: stripped length < 10, a
\* garbage pattern, fewer than 8 Russian words, word count outside the band of
\* the level; the first one that applies decides the result, and the text is
\* accepted exactly when none applies.  In particular a text of fewer than 10
\* characters after stripping is rejected for every level.
C7_CheckOrder ==
    Validated1 =>
        LET txt == Strip(vtext)
            short == Len(txt) < 10
            garbage == IsGarbage(txt)
            few == CallWords < 8
            outside == ~(MinWords[vlevel] <= CallWords /\ CallWords <= MaxWords[vlevel])
        IN  /\ short => (~vres.ok /\ vres.msg = "too_short")
            /\ (~short /\ garbage) => (~vres.ok /\ vres.msg = "meta_garbage")
            /\ (~short /\ ~garbage /\ few)
               => (~vres.ok /\ vres.msg = "not_enough_russian_words")
            /\ (~short /\ ~garbage /\ ~few /\ outside)
               => (~vres.ok /\ vres.msg = "len_out_of_bounds")
            /\ (~short /\ ~garbage /\ ~few /\ ~outside) => vres.ok

\* C7 witness: a text that is too short and also matches a garbage pattern
\* ("ya sozdam") was rejected as too_short
C7_Witness ==
    /\ Validated1
    /\ Len(Strip(vtext)) < 10
    /\ IsGarbage(Strip(vtext))
    /\ vres.msg = "too_short"

LitYaSozdam == <<"ya", " ", "s", "o", "z", "d", "a", "m">>

\* t holds "ya sozdam" at position i, in any letter case
YaSozdamAt(t, i) ==
    /\ i + Len(LitYaSozdam) - 1 <= Len(t)
    /\ \A k \in 1..Len(LitYaSozdam) : Lower(t[i + k - 1]) = LitYaSozdam[k]

\* the occurrence at i is not followed by a letter, a digit or an underscore
EndsWord(t, i) ==
    LET e == i + Len(LitYaSozdam) IN e > Len(t) \/ ~IsWordChar(t[e])

\* C8 as stated: a text that contains "ya sozdam", in any letter case, is
\* rejected as meta_garbage whatever its length, its word count and what
\* surrounds the substring
C8_Original ==
    (Validated1 /\ (\E i \in 1..Len(vtext) : YaSozdamAt(vtext, i)))
    => (~vres.ok /\ vres.msg = "meta_garbage")

\* C8 amended: a text of at least 10 characters after stripping that contains
\* "ya sozdam", in any letter case, not directly followed by a letter, a digit
\* or an underscore, is rejected as meta_garbage, whatever its word count and
\* whatever precedes the substring
C8_Amended ==
    (/\ Validated1
     /\ Len(Strip(vtext)) >= 10
     /\ \E i \in 1..Len(vtext) : YaSozdamAt(vtext, i) /\ EndsWord(vtext, i))
    => (~vres.ok /\ vres.msg = "meta_garbage")

\* C8 witness: an upper-case or glued occurrence ("moya sozdam,") in a long
\* enough text was rejected as meta_garbage
C8_Witness ==
    /\ Validated1
    /\ Len(Strip(vtext)) >= 10
    /\ \E i \in 2..Len(vtext) :
          /\ YaSozdamAt(vtext, i) /\ EndsWord(vtext, i)
          /\ IsWordChar(vtext[i - 1])
    /\ vres.msg = "meta_garbage"

\* the word_count of a record or of returned stats lies in the band of level l
WordCountInBand(n, l) == MinWords[l] <= n /\ n <= MaxWords[l]

\* C9: whenever validate accepts, the returned word_count lies in the band of
\* the level; so the record _generate_one returns, every record of the batch and
\* every record in level_<l>.csv has a word_count in the band of its level
C9_AcceptedInBand ==
    /\ (Validated1 /\ vres.ok) => WordCountInBand(vres.stats.word_count, vlevel)
    /\ \A i \in 1..Len(rec) : WordCountInBand(rec[i].word_count, lvl)
    /\ \A i \in 1..Len(batch) : WordCountInBand(batch[i].word_count, lvl)
    /\ \A l \in Levels : \A i \in 1..Len(files[l].rows) :
          files[l].rows[i].kind = "data" =>
              /\ files[l].rows[i].rec.level = l
              /\ WordCountInBand(files[l].rows[i].rec.word_count, l)

\* C9 witness: a record whose word_count is the lower edge of the band of its
\* level is in the file of the level
C9_Witness ==
    \E l \in Levels : \E i \in 1..Len(files[l].rows) :
        /\ files[l].rows[i].kind = "data"
        /\ files[l].rows[i].rec.word_count = MinWords[l]

\* C10 as stated: every rejection carries one of the reason codes too_short,
\* meta_garbage, not_enough_words, len_out_of_bounds
C10_Original ==
    (Validated1 /\ ~vres.ok)
    => vres.msg \in {"too_short", "meta_garbage", "not_enough_words",
                     "len_out_of_bounds"}

\* C10 amended: every rejection carries one of the reason codes too_short,
\* meta_garbage, not_enough_russian_words, len_out_of_bounds, and a text that
\* passes the first two checks with fewer than 8 Russian words is rejected as
\* not_enough_russian_words
C10_Amended ==
    /\ (Validated1 /\ ~vres.ok)
       => vres.msg \in {"too_short", "meta_garbage", "not_enough_russian_words",
                        "len_out_of_bounds"}
    /\ (/\ Validated1
        /\ Len(Strip(vtext)) >= 10
        /\ ~IsGarbage(Strip(vtext))
        /\ CallWords < 8)
       => (~vres.ok /\ vres.msg = "not_enough_russian_words")

\* C10 witness: a text of 7 Russian words was rejected for its words
C10_Witness ==
    /\ Validated1
    /\ CallWords = 7
    /\ vres.msg = "not_enough_russian_words"

\* C15: a len_out_of_bounds rejection carries the three basic metrics of the
\* rejected text (word_count, sentence_count, avg_sent_len), the three earlier
\* rejections carry the empty dict; at level 1 (band 50..120) a text of 45
\* Russian words that passes the earlier checks is rejected as
\* len_out_of_bounds with word_count 45, and one of 80 is accepted.
C15_StatsOnBandRejection ==
    Validated1 =>
        LET txt == Strip(vtext)
            early == Len(txt) < 10 \/ IsGarbage(txt)
        IN  /\ vres.msg = "len_out_of_bounds" =>
                   (/\ ~vres.ok
                    /\ DOMAIN vres.stats
                           = {"word_count", "sentence_count", "avg_sent_len"}
                    /\ vres.stats.word_count = CallWords
                    /\ vres.stats.sentence_count = Cardinality(Sentences(txt))
                    /\ vres.stats.avg_sent_len.num = CallWords
                    /\ vres.stats.avg_sent_len.den
                           = IF Cardinality(Sentences(txt)) > 1
                             THEN Cardinality(Sentences(txt)) ELSE 1)
            /\ vres.msg \in {"too_short", "meta_garbage", "not_enough_russian_words"}
                   => (~vres.ok /\ DOMAIN vres.stats = {})
            /\ (vlevel = 1 /\ ~early /\ CallWords = 45) =>
                   (/\ ~vres.ok
                    /\ vres.msg = "len_out_of_bounds"
                    /\ vres.stats.word_count = 45)
            /\ (vlevel = 1 /\ ~early /\ CallWords = 80) => vres.ok

\* a text of 45 Russian words in more than one sentence was rejected at level 1
\* for its length, with its metrics
C15_Witness ==
    /\ Validated1
    /\ vlevel = 1
    /\ CallWords = 45
    /\ vres.msg = "len_out_of_bounds"
    /\ vres.stats.word_count = 45
    /\ vres.stats.sentence_count > 1

====
